---------------------------- MODULE Spec2Model ----------------------------
(***************************************************************************)
(* Connection lifecycle of the VoiceAgent component                        *)
(* (frontend/app/components/VoiceAgent.tsx) with the connection guard the  *)
(* fix summary documents: the module-level flag globalConnectionActive,    *)
(* its sessionStorage mirror, the delayed cleanup and the render guard.    *)
(*                                                                         *)
(* Two component instances share one browsing context: A, which is        *)
(* unmounted and remounted, and its sibling B of a double mount, which     *)
(* stays mounted until the page is reloaded.  The transport (LiveKit) is   *)
(* the environment: it moves a session between its phases and calls the    *)
(* component's callbacks while the LiveKitRoom element that owns the       *)
(* session is mounted.  A remount re-runs the effects of the same instance *)
(* on its preserved state and refs (React Strict Mode); a page load starts *)
(* from fresh module state.  Timers carry no clock: a pending timer may    *)
(* fire at any later step.                                                 *)
(***************************************************************************)
EXTENDS Integers, Sequences, FiniteSets, TLC

VARIABLES
  globalConnectionActive,  \* module-level flag
  storage,                 \* sessionStorage holds STORAGE_KEY
  sess,                    \* instance -> phase of the Room its LiveKitRoom made last
  comp,                    \* instance -> its state, refs and timers
  scenario,                \* how far the phases of A have followed Scenario
  audio,                   \* useAudioAnalyzer and RadialVisualizer of one VoiceInterface
  probe                    \* a time-domain buffer and the level computed from it

vars == <<globalConnectionActive, storage, sess, comp, scenario, audio, probe>>

Inst == {"A", "B"}

\* The instance that goes through unmount and remount.
Remounted == {"A"}

MaxFetches == 1
MaxTimers == 1

\* A component instance as useState/useRef leave it after construction.
FreshComp ==
  [ mounted |-> FALSE, view |-> "none",
    token |-> FALSE, isConnecting |-> FALSE, error |-> FALSE,
    fetches |-> 0,
    userInteracted |-> FALSE, connectionState |-> "idle",
    shouldConnect |-> FALSE,
    hasConnectedRef |-> FALSE, connectInitiatedRef |-> FALSE,
    roomRef |-> FALSE,
    teardownTimers |-> 0, retryTimers |-> 0,
    unmountPhase |-> "none" ]

\* The session phase the UI derives from a component's state and the state
\* of its room.
PhaseOf(c, s) ==
  IF c.isConnecting THEN "TokenPending"
  ELSE IF c.error THEN "Failed"
  ELSE CASE s = "connecting" -> "Connecting"
         [] s = "connected" -> "Connected"
         [] s = "reconnecting" -> "Reconnecting"
         [] s = "disconnecting" -> "Disconnecting"
         [] s = "disconnected" -> "Disconnected"
         [] OTHER -> "Idle"

\* The reference phase sequence of one session, and the instance whose
\* phases are followed along it since the page was loaded.
Scenario ==
  << "Idle", "TokenPending", "Connecting", "Connected", "Reconnecting",
     "Connected", "Disconnecting", "Disconnected" >>

Followed == "A"

\* scenario = k > 0: the phases of the followed instance so far are exactly
\* the first k of Scenario; 0: they left the sequence.  A Disconnected room
\* that nothing refers to any more stays Disconnected.
Advance(k, c, s) ==
  LET q == PhaseOf(c, s) IN
  IF k = 0 THEN 0
  ELSE IF q = Scenario[k] THEN k
  ELSE IF k < Len(Scenario) /\ q = Scenario[k + 1] THEN k + 1
  ELSE IF k = Len(Scenario) /\ s = "none" /\ q = "Idle" THEN k
  ELSE 0

(***************************************************************************)
(* Audio sampler: data                                                     *)
(***************************************************************************)

MaxTracks == 2      \* track ids 1..MaxTracks; 0 is the null track
MaxContexts == 3    \* names for AudioContexts that are open or referred to
MaxFrames == 3      \* names for animation-frame requests
MaxLen == 4         \* longest time-domain buffer measured

Tracks == 0..MaxTracks
CtxIds == 1..MaxContexts
FrameIds == 1..MaxFrames

\* Values of the fftSize option; the analyser's buffers have fftSize and
\* fftSize / 2 entries.
FftSizes == {2, 4}

\* Levels are kept in thousandths.
LevelScaleTenths == 22    \* rms * 2.2
FallbackLevel == 50       \* data?.level ?? 0.05

RECURSIVE SumSquares(_)
\* sum of (time[i] - 128)^2
SumSquares(time) ==
  IF time = << >> THEN 0
  ELSE (Head(time) - 128) * (Head(time) - 128) + SumSquares(Tail(time))

ISqrt(x) == CHOOSE r \in 0..1000 : r * r <= x /\ (r + 1) * (r + 1) > x

\* rms = sqrt(sum / time.length) with v = (time[i] - 128) / 128, in
\* thousandths.
\* (1000000 / (128 * 128) = 15625 / 256)
Rms(time) == ISqrt((15625 * SumSquares(time)) \div (256 * Len(time)))

\* The level without the scale: min(1, rms).
C18_LevelUnscaled(time) ==
  IF Rms(time) > 1000 THEN 1000 ELSE Rms(time)

\* level = Math.min(1, rms * 2.2), in thousandths.
Level(time) ==
  LET scaled == (Rms(time) * LevelScaleTenths) \div 10
  IN IF scaled > 1000 THEN 1000 ELSE scaled

\* What the analyser holds at one instant: its time-domain bytes and its
\* frequency bins.
Signals == {"silence", "square", "tone"}

TimeOf(s, n) ==
  [k \in 1..n |->
     CASE s = "silence" -> 128
       [] s = "square" -> IF k % 2 = 1 THEN 0 ELSE 255
       [] OTHER -> IF k % 2 = 1 THEN 160 ELSE 96]

FreqOf(s, n) ==
  [k \in 1..(n \div 2) |->
     CASE s = "silence" -> 0
       [] s = "square" -> 255
       [] OTHER -> 64]

\* useState<'idle' | 'listening' | 'thinking' | 'speaking'>
AgentStates == {"idle", "listening", "thinking", "speaking"}

\* Data messages: who sent it and what its payload holds.  "text" is a
\* payload that is not JSON, "no-state" a JSON value without a state field
\* (or with an empty one), "dancing" stands for every state value outside
\* AgentStates.
Senders == {"agent", "local", "none"}
Payloads == AgentStates \cup {"text", "no-state", "dancing"}

\* data === null
NoSample ==
  [ freq |-> << >>, time |-> << >>, level |-> 0, some |-> FALSE,
    alias |-> FALSE ]

\* What a ref holds after the frame it names has run: the handle of no
\* pending request.
Stale == -1

\* The hook and the visualizer as useState/useRef leave them; rm is the
\* host's answer to the reduced-motion query.  supportsMotion is "unset"
\* until the first render computes the memo.
FreshAudio(rm) ==
  [ mounted |-> FALSE, crashed |-> FALSE,
    reducedMotion |-> rm, supportsMotion |-> "unset",
    track |-> 0, fft |-> 2,
    agentState |-> "idle",
    audioCtxRef |-> 0, analyserRef |-> 0, sourceRef |-> 0, rafRef |-> 0,
    eff |-> 0,                       \* ctx of the analysis effect's closure
    open |-> {},                     \* AudioContexts created and not closed
    bound |-> [c \in CtxIds |-> 0],  \* the track each context was made for
    frames |-> {},                   \* pending animation-frame requests
    work |-> [freq |-> << >>, time |-> << >>],
    data |-> NoSample,
    vizData |-> NoSample, vizRaf |-> 0, drawn |-> -1,
    emit |-> 0, ran |-> FALSE ]

\* A buffer under measurement: the level computed from it, and the sample
\* index the ring drawing computes for one angular step (-1: not computed).
NoProbe == [time |-> << >>, level |-> -1, step |-> 0, index |-> -1]

(***************************************************************************)
(* Connection lifecycle                                                    *)
(***************************************************************************)

InitLifecycle ==
  /\ globalConnectionActive = FALSE
  /\ storage = FALSE
  /\ sess = [i \in Inst |-> "none"]
  /\ comp = [i \in Inst |-> FreshComp]
  /\ scenario = 1

Init ==
  /\ InitLifecycle
  /\ audio = FreshAudio(FALSE)
  /\ probe = NoProbe

\* The state a handler reads and writes, as one value.  log is the
\* instrumented order log of the handler's own calls: "disconnect" for a
\* room.disconnect() on a live room, "redundant" for one on a room that is
\* not live, "clearFlag" for a clearing of the global flags.
World ==
  [ flag |-> globalConnectionActive, storage |-> storage,
    sess |-> sess, comp |-> comp, log |-> << >>, ok |-> TRUE ]

\* A Room that is not connected and that neither a mounted LiveKitRoom nor
\* roomRef refers to is garbage: nothing can change it or read it.
Collect(w) ==
  [w EXCEPT !.sess = [i \in Inst |->
                        IF /\ w.sess[i] \in {"idle", "disconnected"}
                           /\ w.comp[i].view # "room"
                           /\ ~w.comp[i].roomRef
                        THEN "none" ELSE w.sess[i]]]

Commit(w) ==
  /\ w.ok
  /\ LET v == Collect(w) IN
       /\ globalConnectionActive' = v.flag
       /\ storage' = v.storage
       /\ sess' = v.sess
       /\ comp' = v.comp
       /\ scenario' = Advance(scenario, w.comp[Followed], w.sess[Followed])
       /\ UNCHANGED <<audio, probe>>

Logged(w, e) == [w EXCEPT !.log = Append(@, e)]

\* room.disconnect(): the transport closes a live session; on a session
\* that is not live the call is logged and changes nothing.
Live == {"connecting", "connected", "reconnecting"}

RoomDisconnect(w, i) ==
  IF w.sess[i] \in Live
  THEN Logged([w EXCEPT !.sess[i] = "disconnecting"], "disconnect")
  ELSE Logged(w, "redundant")

\* room.state as the code reads it: a session whose disconnect is pending
\* is no longer 'connected'.
RoomState(w, i) == w.sess[i]

\* A clearing that removes the sessionStorage key and forgets the module
\* flag.
C6_ClearStorageOnly(w) ==
  Logged([w EXCEPT !.storage = FALSE], "clearFlag")

\* A clearing that only logs.
C11_ClearNothing(w) == Logged(w, "clearFlag")

\* globalConnectionActive = false; sessionStorage.removeItem(STORAGE_KEY)
ClearGlobalFlags(w) ==
  Logged([w EXCEPT !.flag = FALSE, !.storage = FALSE], "clearFlag")

\* VoiceInterface's cleanup as it was before the disconnect was added: the
\* listeners are removed and the room is left as it is.
C5_CleanupWithoutDisconnect(w, i) == w

\* Cleanup of VoiceInterface's effect: disconnect the context's room when it
\* is connected or connecting.
VoiceInterfaceCleanup(w, i) ==
  IF RoomState(w, i) \in {"connected", "connecting"}
  THEN RoomDisconnect(w, i)
  ELSE w

\* The main cleanup without its check of room.state: every referenced room
\* is disconnected.
C9_CleanupUnguarded(w, i) ==
  LET c == w.comp[i]
      w1 == [w EXCEPT !.comp[i].hasConnectedRef = FALSE,
                      !.comp[i].connectInitiatedRef = FALSE]
      w2 == IF c.roomRef THEN RoomDisconnect(w1, i) ELSE w1
  IN [w2 EXCEPT !.comp[i].roomRef = FALSE]

\* Cleanup body of the main component: reset the refs, disconnect the
\* referenced room when it is connected or connecting, drop the reference.
MainCleanup(w, i) ==
  LET c == w.comp[i]
      w1 == [w EXCEPT !.comp[i].hasConnectedRef = FALSE,
                      !.comp[i].connectInitiatedRef = FALSE]
      w2 == IF c.roomRef /\ RoomState(w1, i) \in {"connected", "connecting"}
            THEN RoomDisconnect(w1, i)
            ELSE w1
  IN [w2 EXCEPT !.comp[i].roomRef = FALSE]

\* Body of the delayed cleanup: the main cleanup, then the global flags are
\* cleared.
DelayedCleanup(w, i) == ClearGlobalFlags(MainCleanup(w, i))

\* handleBeforeUnload: disconnect the referenced room when it is connected
\* or connecting; an error of the call is caught.
HandleBeforeUnload(w, i) ==
  LET c == w.comp[i] IN
  IF c.roomRef /\ RoomState(w, i) \in {"connected", "connecting"}
  THEN RoomDisconnect(w, i)
  ELSE w

\* shouldConnect without its test of userInteracted.
C12_ConnectWithoutStart(c) ==
  IF ~c.token
  THEN [c EXCEPT !.shouldConnect = FALSE]
  ELSE [c EXCEPT !.connectInitiatedRef = TRUE, !.shouldConnect = TRUE]

\* useMemo body of shouldConnect, with its write to connectInitiatedRef.
ShouldConnect(c) ==
  IF ~c.token \/ ~c.userInteracted
  THEN [c EXCEPT !.shouldConnect = FALSE]
  ELSE IF c.connectInitiatedRef
  THEN [c EXCEPT !.shouldConnect = TRUE]
  ELSE IF c.connectionState \in {"connecting", "waiting-agent", "reconnecting"}
  THEN [c EXCEPT !.connectInitiatedRef = TRUE, !.shouldConnect = TRUE]
  ELSE [c EXCEPT !.shouldConnect = FALSE]

\* What VoiceAgent's render returns.
ViewOf(c, flag) ==
  IF ~c.mounted THEN "none"
  ELSE IF c.isConnecting \/ ~c.token THEN "loading"
  ELSE IF c.error THEN "error"
  ELSE IF flag /\ ~c.roomRef THEN "waiting"
  ELSE "room"

\* <LiveKitRoom connect=...> is mounted: a new Room, connecting when the
\* connect prop is true; VoiceInterface hands the room to roomRef.  The
\* Room of an earlier LiveKitRoom of this instance is no longer observed.
LiveKitRoomMount(w, i) ==
  [w EXCEPT !.sess[i] = IF w.comp[i].shouldConnect THEN "connecting" ELSE "idle",
            !.comp[i].roomRef = TRUE,
            !.comp[i].view = "room"]

\* <LiveKitRoom> stays mounted: the connect prop turning true connects the
\* room that was not connected yet.
LiveKitRoomUpdate(w, i) ==
  IF w.comp[i].shouldConnect /\ w.sess[i] = "idle"
  THEN [w EXCEPT !.sess[i] = "connecting"]
  ELSE w

\* A re-render of instance i after one of its state setters ran.
Render(w, i) ==
  LET c == w.comp[i]
      nv == ViewOf(c, w.flag)
  IN IF ~c.mounted THEN w
     ELSE IF c.view = "room" /\ nv # "room"
     THEN [VoiceInterfaceCleanup(w, i) EXCEPT !.comp[i].view = nv]
     ELSE IF c.view # "room" /\ nv = "room" THEN LiveKitRoomMount(w, i)
     ELSE IF nv = "room" THEN LiveKitRoomUpdate(w, i)
     ELSE [w EXCEPT !.comp[i].view = nv]

\* fetchToken up to its await: setIsConnecting(true); setError('').
FetchToken(w, i) ==
  IF w.comp[i].fetches >= MaxFetches THEN [w EXCEPT !.ok = FALSE]
  ELSE [w EXCEPT !.comp[i].isConnecting = TRUE,
                 !.comp[i].error = FALSE,
                 !.comp[i].fetches = @ + 1]

\* Mount effect of the main component: clear a stale connection flag.
ClearStaleFlag(w) ==
  IF w.storage THEN ClearGlobalFlags(w) ELSE w


\* onConnected of <LiveKitRoom>: skipped when this instance or any other
\* already marked a connection; otherwise the flag and its mirror are set.
OnConnected(w, i) ==
  IF w.comp[i].hasConnectedRef \/ w.flag THEN w
  ELSE [w EXCEPT !.flag = TRUE, !.storage = TRUE,
                 !.comp[i].hasConnectedRef = TRUE]

\* onDisconnected without its test of the reason: the retry is scheduled
\* after every disconnect.
C24_RetryOnEveryDisconnect(w, i, reason) ==
  LET w1 == [w EXCEPT !.comp[i].hasConnectedRef = FALSE,
                      !.comp[i].connectInitiatedRef = FALSE,
                      !.comp[i].roomRef = FALSE]
      w2 == ClearGlobalFlags(w1)
  IN IF w2.comp[i].retryTimers >= MaxTimers THEN [w2 EXCEPT !.ok = FALSE]
     ELSE [w2 EXCEPT !.comp[i].retryTimers = @ + 1]

\* onDisconnected of <LiveKitRoom>: reset the refs and the room reference,
\* clear the flag and its mirror, and schedule fetchToken in 2 s unless the
\* client asked for the disconnect.
OnDisconnected(w, i, reason) ==
  LET w1 == [w EXCEPT !.comp[i].hasConnectedRef = FALSE,
                      !.comp[i].connectInitiatedRef = FALSE,
                      !.comp[i].roomRef = FALSE]
      w2 == ClearGlobalFlags(w1)
  IN IF reason = "CLIENT_INITIATED" THEN w2
     ELSE IF w2.comp[i].retryTimers >= MaxTimers THEN [w2 EXCEPT !.ok = FALSE]
     ELSE [w2 EXCEPT !.comp[i].retryTimers = @ + 1]

\* onError of <LiveKitRoom>: setError(error.message).
OnError(w, i) ==
  Render([w EXCEPT !.comp[i].error = TRUE], i)

\* A room event reaches the callbacks of <LiveKitRoom> while it is mounted.
Listening(w, i) == w.comp[i].view = "room"

DeliverConnected(w, i) ==
  IF Listening(w, i) THEN OnConnected(w, i) ELSE w

DeliverRemoteClose(w, i) ==
  IF Listening(w, i) THEN OnDisconnected(w, i, "REMOTE") ELSE w

DeliverClientClose(w, i) ==
  IF Listening(w, i) THEN OnDisconnected(w, i, "CLIENT_INITIATED") ELSE w

(***************************************************************************)
(* Actions                                                                 *)
(***************************************************************************)

\* The component mounts: its effects run (fetchToken, the stale-flag
\* clearing, the beforeunload listener), then it renders.
Mount(i) ==
  /\ ~comp[i].mounted
  /\ LET w0 == [World EXCEPT !.comp[i].mounted = TRUE,
                             !.comp[i].unmountPhase = "none"]
     IN Commit(Render(ClearStaleFlag(FetchToken(w0, i)), i))

\* The component unmounts: VoiceInterface's cleanup runs when it was
\* rendered, and the main cleanup schedules the delayed teardown; the
\* function it returns is never called, so nothing cancels the timer.
Unmount(i) ==
  /\ comp[i].mounted
  /\ comp[i].teardownTimers < MaxTimers
  /\ LET c == comp[i]
         w0 == [World EXCEPT !.comp[i].unmountPhase =
                         IF c.view = "room" THEN sess[i] ELSE "none"]
         w1 == IF c.view = "room" THEN VoiceInterfaceCleanup(w0, i) ELSE w0
     IN Commit([w1 EXCEPT !.comp[i].mounted = FALSE,
                          !.comp[i].view = "none",
                          !.comp[i].teardownTimers = @ + 1])

\* The 100 ms timer of the delayed cleanup fires.
TeardownTimerFires(i) ==
  /\ comp[i].teardownTimers > 0
  /\ LET w0 == [World EXCEPT !.comp[i].teardownTimers = @ - 1]
     IN Commit(DelayedCleanup(w0, i))

\* The user starts the session.
StartSession(i) ==
  /\ comp[i].mounted
  /\ ~comp[i].userInteracted
  /\ LET c == [comp[i] EXCEPT !.userInteracted = TRUE,
                              !.connectionState = "connecting"]
         w0 == [World EXCEPT !.comp[i] = ShouldConnect(c)]
     IN Commit(Render(w0, i))

\* The token request returns a token.
FetchSucceeds(i) ==
  /\ comp[i].fetches > 0
  /\ LET c == [comp[i] EXCEPT !.token = TRUE, !.isConnecting = FALSE,
                              !.fetches = @ - 1]
         w0 == [World EXCEPT !.comp[i] = ShouldConnect(c)]
     IN Commit(Render(w0, i))

\* The token request fails: a non-OK response, no token field, or a
\* network error all end in the catch block.
FetchFails(i) ==
  /\ comp[i].fetches > 0
  /\ \E kind \in {"not-ok", "no-token", "network"} :
       LET w0 == [World EXCEPT !.comp[i].error = TRUE,
                               !.comp[i].isConnecting = FALSE,
                               !.comp[i].fetches = @ - 1]
       IN Commit(Render(w0, i))

\* The user clicks "Retry Connection" in the error view.
Retry(i) ==
  /\ comp[i].view = "error"
  /\ Commit(Render(FetchToken(World, i), i))

\* The 2 s timer set by onDisconnected fires.
RetryTimerFires(i) ==
  /\ comp[i].retryTimers > 0
  /\ LET w0 == [World EXCEPT !.comp[i].retryTimers = @ - 1]
     IN Commit(Render(FetchToken(w0, i), i))

\* The transport reports success.
TransportConnected(i) ==
  /\ sess[i] = "connecting"
  /\ Commit(DeliverConnected([World EXCEPT !.sess[i] = "connected"], i))

\* The transport reports a transient interruption.
TransportInterrupted(i) ==
  /\ sess[i] \in {"connecting", "connected"}
  /\ Commit([World EXCEPT !.sess[i] = "reconnecting"])

\* The transport recovers.
TransportRecovered(i) ==
  /\ sess[i] = "reconnecting"
  /\ Commit([World EXCEPT !.sess[i] = "connected"])

\* The transport closes the session (remote close, recovery exhausted).
TransportClosed(i) ==
  /\ sess[i] \in {"connecting", "connected", "reconnecting"}
  /\ Commit(DeliverRemoteClose([World EXCEPT !.sess[i] = "disconnected"], i))

\* A pending room.disconnect() completes.
DisconnectCompletes(i) ==
  /\ sess[i] = "disconnecting"
  /\ Commit(DeliverClientClose([World EXCEPT !.sess[i] = "disconnected"], i))

\* The room reports an error to onError.
TransportError(i) ==
  /\ comp[i].view = "room"
  /\ sess[i] \in Live
  /\ Commit(OnError(World, i))

\* beforeunload: the handler disconnects its room, and the global flags are
\* cleared.
UnloadOne(w, i) ==
  ClearGlobalFlags(HandleBeforeUnload(w, i))

UnloadAll(w) == UnloadOne(UnloadOne(w, "A"), "B")

\* The page is reloaded: the beforeunload handlers run, then the module
\* state is fresh; sessionStorage is kept as the handlers left it.  The
\* sessions of the old page end with it.
PageReload ==
  /\ \E i \in Inst : comp[i] # FreshComp
  /\ storage' = UnloadAll(World).storage
  /\ globalConnectionActive' = FALSE
  /\ sess' = [i \in Inst |-> "none"]
  /\ comp' = [i \in Inst |-> FreshComp]
  /\ scenario' = 1
  /\ UNCHANGED <<audio, probe>>

Next ==
  \/ \E i \in Inst : Mount(i)
  \/ \E i \in Remounted : Unmount(i)
  \/ \E i \in Remounted : TeardownTimerFires(i)
  \/ \E i \in Inst : StartSession(i)
  \/ \E i \in Inst : FetchSucceeds(i)
  \/ \E i \in Inst : FetchFails(i)
  \/ \E i \in Inst : Retry(i)
  \/ \E i \in Inst : RetryTimerFires(i)
  \/ \E i \in Inst : TransportError(i)
  \/ \E i \in Inst : TransportConnected(i)
  \/ \E i \in Inst : TransportInterrupted(i)
  \/ \E i \in Inst : TransportRecovered(i)
  \/ \E i \in Inst : TransportClosed(i)
  \/ \E i \in Inst : DisconnectCompletes(i)
  \/ PageReload

Spec == Init /\ [][Next]_vars

\* setTimeout callbacks always run: a pending teardown timer fires.  No
\* fairness is assumed of the transport, so a disconnect may stay pending.
FairSpec == Spec /\ \A i \in Remounted : WF_vars(TeardownTimerFires(i))

\* Everything that does not wait for the user makes progress: timers fire,
\* a token request is answered, the transport answers a connect, a
\* recovery and a disconnect.
SystemFairSpec ==
  /\ Spec
  /\ \A i \in Remounted : WF_vars(TeardownTimerFires(i))
  /\ \A i \in Inst :
       /\ WF_vars(RetryTimerFires(i))
       /\ WF_vars(FetchSucceeds(i) \/ FetchFails(i))
       /\ WF_vars(TransportConnected(i))
       /\ WF_vars(TransportRecovered(i))
       /\ WF_vars(DisconnectCompletes(i))

TypeOK ==
  /\ globalConnectionActive \in BOOLEAN
  /\ storage \in BOOLEAN
  /\ \A i \in Inst :
       /\ sess[i] \in {"none", "idle", "connecting", "connected", "reconnecting",
                        "disconnecting", "disconnected"}
       /\ comp[i].view \in {"none", "loading", "error", "waiting", "room"}
       /\ comp[i].fetches \in 0..MaxFetches
       /\ comp[i].view = "room" => sess[i] # "none"
  /\ scenario \in 0..Len(Scenario)


(***************************************************************************)
(* Audio sampler and renderer: useAudioAnalyzer, RadialVisualizer          *)
(***************************************************************************)

\* Names not in use for a new AudioContext or a new frame request.
FreeCtx(a) ==
  {c \in CtxIds : /\ c \notin a.open
                  /\ c \notin {a.audioCtxRef, a.analyserRef, a.sourceRef, a.eff}}

FreeFrames(a) == {n \in FrameIds : \A f \in a.frames : f.id # n}

Least(S) == CHOOSE n \in S : \A m \in S : n <= m

\* requestAnimationFrame(cb): the handle of the new request.
RequestFrame(a, kind) ==
  [a EXCEPT !.frames = @ \cup {[id |-> Least(FreeFrames(a)), kind |-> kind]}]

\* The browser takes request f off its list and runs its callback.
Fired(a, f) ==
  [a EXCEPT !.frames = @ \ {f},
            !.rafRef = IF @ = f.id THEN Stale ELSE @,
            !.vizRaf = IF @ = f.id THEN Stale ELSE @]

\* cancelAnimationFrame(id)
CancelFrame(a, id) == [a EXCEPT !.frames = {f \in @ : f.id # id}]

\* ctx.close(); closing a closed context rejects, and the rejection is caught.
CloseContext(a, c) == [a EXCEPT !.open = @ \ {c}, !.bound[c] = 0]

\* The cleanup without its cancelAnimationFrame.
C13_CleanupWithoutCancel(a) ==
  LET a2 == IF a.audioCtxRef # 0 THEN CloseContext(a, a.audioCtxRef) ELSE a
  IN [a2 EXCEPT !.rafRef = 0, !.sourceRef = 0, !.analyserRef = 0,
                !.audioCtxRef = 0]

\* Cleanup of the effect keyed by the track id: cancel the frame in rafRef,
\* disconnect and close what the refs hold, reset the refs.
CleanupTrack(a) ==
  LET a1 == IF a.rafRef # 0 THEN CancelFrame(a, a.rafRef) ELSE a
      a2 == IF a1.audioCtxRef # 0 THEN CloseContext(a1, a1.audioCtxRef) ELSE a1
  IN [a2 EXCEPT !.rafRef = 0, !.sourceRef = 0, !.analyserRef = 0,
                !.audioCtxRef = 0]

\* The cleanup without its ctx.close().
C14_CleanupWithoutClose(a) ==
  IF a.eff = 0 THEN a
  ELSE LET a1 == IF a.rafRef # 0 THEN CancelFrame(a, a.rafRef) ELSE a
       IN [a1 EXCEPT !.eff = 0]

\* Cleanup returned by the analysis effect: cancel the frame in rafRef,
\* disconnect and close the context of its own closure.  eff = 0: the
\* effect returned no cleanup.
CleanupAnalysis(a) ==
  IF a.eff = 0 THEN a
  ELSE LET a1 == IF a.rafRef # 0 THEN CancelFrame(a, a.rafRef) ELSE a
       IN [CloseContext(a1, a.eff) EXCEPT !.eff = 0]

\* Cleanup of the visualizer's draw effect: cancel the frame in raf.
CleanupDraw(a) ==
  IF a.vizRaf # 0 THEN CancelFrame(a, a.vizRaf) ELSE a

\* The draw effect, run with the data the visualizer is rendered with:
\* request the first frame of render.
SetupDraw(a) ==
  LET n == Least(FreeFrames(a))
  IN [RequestFrame(a, "render") EXCEPT !.vizRaf = n, !.vizData = a.data]

\* VoiceInterface renders its visualizer with the data set last: when the
\* data changed, the draw effect is cleaned up and run again.
Rerender(a) ==
  IF a.vizData # a.data THEN SetupDraw(CleanupDraw(a)) ELSE a

\* An error thrown by an effect is not caught by any boundary: React
\* unmounts the tree, running the cleanups of the effects that are mounted.
Crash(a) ==
  [CleanupDraw(CleanupAnalysis(CleanupTrack(a)))
     EXCEPT !.mounted = FALSE, !.crashed = TRUE]

\* The analysis effect.  c names the AudioContext it creates; outcome is
\* what the host does at the creation: "ok", "no-context" (new
\* AudioContext() throws) or "no-source" (createMediaStreamSource throws).
SetupAnalysis(a, c, outcome) ==
  IF a.track = 0 THEN a
  ELSE IF a.supportsMotion # "yes" THEN a
  ELSE IF outcome = "no-context" THEN Crash(a)
  ELSE LET a1 == [a EXCEPT !.audioCtxRef = c, !.open = @ \cup {c},
                           !.bound[c] = a.track, !.analyserRef = c]
       IN IF outcome = "no-source" THEN Crash(a1)
          ELSE LET n == Least(FreeFrames(a1))
                   a2 == [a1 EXCEPT
                            !.sourceRef = c,
                            !.work = [freq |-> [k \in 1..(a.fft \div 2) |-> 0],
                                      time |-> [k \in 1..a.fft |-> 0]]]
               IN [RequestFrame(a2, "loop") EXCEPT !.rafRef = n, !.eff = c]

\* setData({freq, time, level}): the sample shares the working buffers.
C19_PublishShared(work, level) ==
  [ freq |-> work.freq, time |-> work.time, level |-> level, some |-> TRUE,
    alias |-> TRUE ]

\* setData({freq: new Uint8Array(freq), time: new Uint8Array(time), level}):
\* the sample holds copies of the working buffers.
Publish(work, level) ==
  [ freq |-> work.freq, time |-> work.time, level |-> level, some |-> TRUE,
    alias |-> FALSE ]

\* The sample as its reader sees it: a sample that shares the working
\* buffers shows what they hold now.
View(a, d) ==
  IF d.alias THEN [d EXCEPT !.freq = a.work.freq, !.time = a.work.time] ELSE d

\* loop, run for the frame it was requested for; s is what the analyser
\* holds at this instant.
Loop(a, s) ==
  IF a.analyserRef = 0 THEN a
  ELSE LET r == a.analyserRef
           w == [freq |-> FreqOf(s, Len(a.work.time)),
                 time |-> TimeOf(s, Len(a.work.time))]
           a1 == [a EXCEPT !.work = w,
                           !.data = Publish(w, Level(w.time)),
                           !.emit = r]
           n == Least(FreeFrames(a1))
       IN [RequestFrame(a1, "loop") EXCEPT !.rafRef = n]

\* render that requests the next frame without keeping its handle in raf.
C20_RenderLosesHandle(a) ==
  LET d == View(a, a.vizData)
      a1 == [a EXCEPT !.drawn = IF d.some THEN d.level ELSE FallbackLevel,
                      !.ran = TRUE]
  IN RequestFrame(a1, "render")

\* render, run for the frame it was requested for: it draws with the level
\* of the data of its closure, or the fallback, and requests the next frame.
\* const [c1, c2] = colorMap[state] throws when colorMap has no entry for
\* state: the canvas is left cleared and no next frame is requested.
Render2d(a) ==
  IF a.agentState \notin AgentStates
  THEN [a EXCEPT !.drawn = -1, !.ran = TRUE]
  ELSE
  LET d == View(a, a.vizData)
      a1 == [a EXCEPT !.drawn = IF d.some THEN d.level ELSE FallbackLevel,
                      !.ran = TRUE]
      n == Least(FreeFrames(a1))
  IN [RequestFrame(a1, "render") EXCEPT !.vizRaf = n]

\* setAgentState(s) and the render that follows: the draw effect depends on
\* state and on data.
SetAgentState(a, s) ==
  IF s = a.agentState THEN Rerender(a)
  ELSE SetupDraw(CleanupDraw([a EXCEPT !.agentState = s]))

\* The effect on remoteParticipants and tracks: each of its branches sets
\* 'listening'.
TrackAgent(a) == SetAgentState(a, "listening")

\* handleDataReceived
HandleDataReceived(a, sender, payload) ==
  IF sender # "agent" THEN a
  ELSE IF payload \in {"text", "no-state"} THEN a
  ELSE SetAgentState(a, payload)

\* Nothing was sampled or drawn in the step so far.
Quiet(a) == [a EXCEPT !.emit = 0, !.ran = FALSE]

AudioCommit(a) ==
  /\ audio' = a
  /\ UNCHANGED <<globalConnectionActive, storage, sess, comp, scenario, probe>>

Outcomes == {"ok", "no-context", "no-source"}

\* useMemo(() => !matchMedia('(prefers-reduced-motion: reduce)').matches, []):
\* computed by the first render and kept.
SupportsMotion(a) ==
  IF a.supportsMotion # "unset" THEN a.supportsMotion
  ELSE IF a.reducedMotion THEN "no" ELSE "yes"

\* VoiceInterface mounts (or is mounted again by Strict Mode): the effects
\* of the hook and of the visualizer run.
AMount ==
  /\ ~audio.mounted /\ ~audio.crashed
  /\ FreeCtx(audio) # {} /\ Cardinality(FreeFrames(audio)) >= 2
  /\ \E outcome \in Outcomes :
       LET a0 == [Quiet(audio) EXCEPT !.mounted = TRUE,
                                      !.supportsMotion = SupportsMotion(audio)]
           a1 == SetupAnalysis(a0, Least(FreeCtx(a0)), outcome)
       IN AudioCommit(IF a1.crashed THEN a1 ELSE TrackAgent(SetupDraw(a1)))

\* VoiceInterface unmounts: every cleanup runs.
AUnmount ==
  /\ audio.mounted
  /\ AudioCommit([CleanupDraw(CleanupAnalysis(CleanupTrack(Quiet(audio))))
                    EXCEPT !.mounted = FALSE])

\* The agent's microphone track changes, appears or goes away (t = 0): both
\* effects of the hook are cleaned up and run again.
TrackChange(t) ==
  /\ audio.mounted
  /\ t # audio.track
  /\ FreeCtx(audio) # {} /\ FreeFrames(audio) # {}
  /\ \E outcome \in Outcomes :
       LET a0 == CleanupAnalysis(CleanupTrack(Rerender(Quiet(audio))))
           a1 == [a0 EXCEPT !.track = t]
           a2 == SetupAnalysis(a1, Least(FreeCtx(a1)), outcome)
       IN AudioCommit(IF a2.crashed THEN a2 ELSE TrackAgent(a2))

\* The fftSize option changes: only the analysis effect is cleaned up and
\* run again.
OptionChange(n) ==
  /\ audio.mounted
  /\ n # audio.fft
  /\ FreeCtx(audio) # {} /\ FreeFrames(audio) # {}
  /\ \E outcome \in Outcomes :
       LET a0 == CleanupAnalysis(Rerender(Quiet(audio)))
           a1 == [a0 EXCEPT !.fft = n]
       IN AudioCommit(SetupAnalysis(a1, Least(FreeCtx(a1)), outcome))

\* The browser runs a pending frame callback of the sampler.
LoopFires(f) ==
  /\ f \in audio.frames /\ f.kind = "loop"
  /\ \E s \in Signals : AudioCommit(Loop(Fired(Quiet(audio), f), s))

\* React renders VoiceInterface after setData.
Propagate ==
  /\ audio.mounted
  /\ audio.vizData # audio.data
  /\ AudioCommit(Rerender(Quiet(audio)))

\* The browser runs a pending frame callback of the visualizer.
RenderFires(f) ==
  /\ f \in audio.frames /\ f.kind = "render"
  /\ AudioCommit(Render2d(Fired(Quiet(audio), f)))

\* The room delivers a data message.
DataReceived(sender, payload) ==
  /\ audio.mounted
  /\ FreeFrames(audio) # {}
  /\ AudioCommit(HandleDataReceived(Quiet(audio), sender, payload))

\* The user changes the reduced-motion preference of the host; the hook
\* registers no listener for it.
MotionPreferenceChanges ==
  AudioCommit([Quiet(audio) EXCEPT !.reducedMotion = ~@])

\* The page is loaded again: a new instance, no context or frame survives.
AudioReload ==
  /\ audio # FreshAudio(audio.reducedMotion)
  /\ AudioCommit(FreshAudio(audio.reducedMotion))

AudioInit ==
  /\ InitLifecycle
  /\ \E rm \in BOOLEAN, t \in Tracks :
       audio = [FreshAudio(rm) EXCEPT !.track = t]
  /\ probe = NoProbe

AudioNext ==
  \/ AMount
  \/ AUnmount
  \/ \E t \in Tracks : TrackChange(t)
  \/ \E n \in FftSizes : OptionChange(n)
  \/ \E f \in audio.frames : LoopFires(f)
  \/ Propagate
  \/ \E f \in audio.frames : RenderFires(f)
  \/ \E sender \in Senders, payload \in Payloads : DataReceived(sender, payload)
  \/ MotionPreferenceChanges
  \/ AudioReload

AudioSpec == AudioInit /\ [][AudioNext]_vars

\* The browser keeps producing animation frames, and a frame runs the render
\* callback that is pending when it begins.
AudioFairSpec ==
  AudioSpec /\ WF_vars(\E f \in audio.frames : RenderFires(f))

\* The names never run out while the code runs as written.
AudioTypeOK ==
  /\ audio.open \subseteq CtxIds
  /\ \A f \in audio.frames : f.id \in FrameIds
  /\ audio.mounted => (FreeCtx(audio) # {} /\ FreeFrames(audio) # {})
  /\ ~audio.mounted => Cardinality(FreeFrames(audio)) >= 2

(***************************************************************************)
(* Ring drawing: the sample index of an angular step                       *)
(***************************************************************************)

Steps == 128    \* const steps = 128

\* Math.floor((i / steps) * data.time.length); i / 128 is exact.
SampleIndex(i, length) == (i * length) \div Steps

RingInit ==
  /\ InitLifecycle
  /\ audio = FreshAudio(FALSE)
  /\ \E s \in Signals, n \in 0..MaxLen, i \in 0..Steps :
       probe = [NoProbe EXCEPT !.time = TimeOf(s, n), !.step = i]

\* One pass of the inner loop of render: the index is computed when the
\* buffer is not empty.
RingPoint ==
  /\ probe.index = -1
  /\ Len(probe.time) # 0
  /\ probe' = [probe EXCEPT !.index = SampleIndex(probe.step, Len(probe.time))]
  /\ UNCHANGED <<globalConnectionActive, storage, sess, comp, scenario, audio>>

RingNext == RingPoint

RingSpec == RingInit /\ [][RingNext]_vars

(***************************************************************************)
(* Level of a time-domain buffer                                           *)
(***************************************************************************)

ByteSamples == {0, 1, 127, 128, 129, 255}

RECURSIVE Buffers(_)
Buffers(n) ==
  IF n = 0 THEN {<< >>}
  ELSE LET B == Buffers(n - 1)
       IN B \cup {Append(b, x) : b \in {c \in B : Len(c) = n - 1}, x \in ByteSamples}

LevelInit ==
  /\ InitLifecycle
  /\ audio = FreshAudio(FALSE)
  /\ \E b \in Buffers(MaxLen) \ {<< >>} : probe = [NoProbe EXCEPT !.time = b]

\* The level of the buffer is computed as loop computes it.
Measure ==
  /\ probe.level = -1
  /\ probe' = [probe EXCEPT !.level = Level(probe.time)]
  /\ UNCHANGED <<globalConnectionActive, storage, sess, comp, scenario, audio>>

LevelNext == Measure

LevelSpec == LevelInit /\ [][LevelNext]_vars

(***************************************************************************)
(* Derived notions                                                         *)
(***************************************************************************)

\* The session phase of instance i as the UI derives it from its state.
Phase(i) == PhaseOf(comp[i], sess[i])

\* Another instance than i holds a live transport session.
OtherLive(i) == \E j \in Inst \ {i} : sess[j] \in Live

\* The step opens a transport session for instance i.
Opens(i) == sess'[i] = "connecting" /\ sess[i] # "connecting"

\* The step is a page reload.
IsReload ==
  /\ comp' = [i \in Inst |-> FreshComp]
  /\ \E i \in Inst : comp[i] # FreshComp

\* The step unmounts instance i.
Unmounts(i) == comp[i].mounted /\ ~comp'[i].mounted /\ ~IsReload

\* The step mounts instance i again in the same browsing context.
Remounts(i) == ~comp[i].mounted /\ comp'[i].mounted /\ comp[i] # FreshComp

\* The step is a connect attempt of instance i: its render reaches the
\* guard wanting a connection, and did not before.
ConnectAttempt(i) ==
  /\ comp'[i].view \in {"room", "waiting"}
  /\ comp'[i].shouldConnect
  /\ comp[i].view \notin {"room", "waiting"} \/ ~comp[i].shouldConnect

(***************************************************************************)
(* Claims                                                                  *)
(***************************************************************************)

\* C1: in every reachable state at most one transport session of the room
\* is in phase Connecting or Connected.
C1_AtMostOneActiveSession ==
  Cardinality({i \in Inst : sess[i] \in {"connecting", "connected"}}) <= 1

\* C2: of two connect attempts issued concurrently by two mounted component
\* instances exactly one transport session reaches Connected; its safety
\* half: never are the sessions of both Connected.
C2_NeverTwoConnected ==
  (\A i \in Inst : comp[i].view = "room")
     => Cardinality({i \in Inst : sess[i] = "connected"}) < 2

\* C3: a session in phase Connecting implies the guard flag is set, and an
\* instance in phase Disconnected or Failed, with no other session open,
\* implies the flag is clear.
C3_FlagSetWhileConnecting ==
  \A i \in Inst : sess[i] = "connecting" => globalConnectionActive

C3_FlagClearWhenDisconnectedOrFailed ==
  \A i \in Inst :
    (Phase(i) \in {"Disconnected", "Failed"} /\ ~OtherLive(i))
      => ~globalConnectionActive

C3_FlagTracksPhase ==
  C3_FlagSetWhileConnecting /\ C3_FlagClearWhenDisconnectedOrFailed

\* C4: a connect attempt made while the guard flag is set puts the UI in
\* the waiting view and opens no transport session.
C4_GuardedAttemptWaits ==
  [][\A i \in Inst :
       (ConnectAttempt(i) /\ globalConnectionActive /\ globalConnectionActive')
         => (comp'[i].view = "waiting" /\ \A j \in Inst : ~Opens(j))]_vars

C7_RemountCancelsTeardown ==
  [][\A i \in Inst : Remounts(i) => comp'[i].teardownTimers = 0]_vars

\* C8: the guard flag survives a remount in the same browsing context while
\* a session is still live, and is clear after a page reload.
C8_FlagSurvivesRemount ==
  [][/\ \A i \in Inst :
          (Remounts(i) /\ globalConnectionActive
             /\ \E j \in Inst : sess[j] \in Live)
            => globalConnectionActive'
     /\ IsReload => ~globalConnectionActive']_vars

\* C9: a disconnect requested by a cleanup while the session is already
\* Disconnected issues no transport call and changes neither the phase nor
\* the guard flag, and running a cleanup twice in a row leaves the sessions
\* and the flag as running it once, with no further transport call.
C9_SameEffect(a, b) ==
  /\ a.sess = b.sess
  /\ a.flag = b.flag
  /\ a.storage = b.storage
  /\ a.log = b.log

C9_DisconnectIdempotent ==
  \A i \in Inst :
    LET v == VoiceInterfaceCleanup(World, i)
        m == MainCleanup(World, i)
        u == HandleBeforeUnload(World, i)
    IN /\ sess[i] = "disconnected"
            => /\ C9_SameEffect(v, World)
               /\ C9_SameEffect(m, World)
               /\ C9_SameEffect(u, World)
       /\ C9_SameEffect(VoiceInterfaceCleanup(v, i), v)
       /\ C9_SameEffect(MainCleanup(m, i), m)
       /\ C9_SameEffect(HandleBeforeUnload(u, i), u)
       /\ C9_SameEffect(MainCleanup(v, i), v)

\* C9 witness: A was unmounted while its session was already Disconnected
\* and its delayed cleanup has run as well.
C9_Witness ==
  /\ ~comp["A"].mounted
  /\ comp["A"].unmountPhase = "disconnected"
  /\ comp["A"].teardownTimers = 0

\* C10: once a token fetch has failed the view is the error view with the
\* retry action, also when no token was ever obtained.
C10_FetchFailureShowsError ==
  \A i \in Inst :
    (comp[i].mounted /\ comp[i].error /\ ~comp[i].isConnecting)
      => comp[i].view = "error"

LoopFrames == {f \in audio.frames : f.kind = "loop"}
RenderFrames == {f \in audio.frames : f.kind = "render"}

\* C13: a sample is emitted only by a mounted sampler from the open
\* analysis context made for the current track; once the track is detached
\* or the sampler unmounted no sampling callback is pending; and a pending
\* sampling callback never finds the analyser of a released context.
C13_NoStaleSample ==
  /\ audio.emit # 0
       => /\ audio.mounted
          /\ audio.track # 0
          /\ audio.emit \in audio.open
          /\ audio.bound[audio.emit] = audio.track
  /\ (audio.track = 0 \/ ~audio.mounted) => LoopFrames = {}
  /\ (LoopFrames # {} /\ audio.analyserRef # 0)
       => audio.analyserRef \in audio.open

\* C13 witness: a track was attached and sampled, then detached.
C13_Witness ==
  /\ audio.mounted
  /\ audio.track = 0
  /\ audio.data.some
  /\ LoopFrames = {}

\* C14: at most one analysis context is open, and none once the track is
\* detached or the hook unmounted.
C14_NoLeakedContext ==
  /\ Cardinality(audio.open) <= 1
  /\ (audio.track = 0 \/ ~audio.mounted) => audio.open = {}

\* C14 witness: the hook sampled a track with the second fftSize and was
\* unmounted, and no context is open.
C14_Witness ==
  /\ ~audio.mounted
  /\ ~audio.crashed
  /\ audio.data.some
  /\ audio.fft = 4
  /\ audio.open = {}

\* C15: while the track is null no sample is emitted and every render
\* draws with the fallback level 0.05.
C15_NullTrackDrawsFallback ==
  (audio.mounted /\ audio.track = 0)
    => /\ audio.emit = 0
       /\ audio.ran => audio.drawn = FallbackLevel

\* C16: a failure to create the audio context or its source raises no
\* uncaught error: the sampler stays mounted as unavailable and the renderer
\* keeps running.
C16_CreationFailureContained ==
  ~audio.crashed

\* The step starts the sampler: it creates an analysis context.
Starts ==
  \E c \in audio'.open : c \notin audio.open \/ audio'.bound[c] # audio.bound[c]

\* C17: while the host signals the reduced-motion preference the sampler
\* does not start, whatever track is attached.
C17_ReducedMotionNeverStarts ==
  [][Starts => ~audio.reducedMotion]_vars

\* C18: the level of a buffer of bytes lies in [0, 1], is 0 exactly for
\* silence (every byte 128) and is 1 for a full-scale square wave.
IsSilence(time) == \A k \in DOMAIN time : time[k] = 128

IsSquareWave(time) ==
  /\ Len(time) >= 2
  /\ \A k \in DOMAIN time : time[k] \in {0, 255}
  /\ \A k \in 1..(Len(time) - 1) : time[k] # time[k + 1]

C18_LevelInRange ==
  probe.level # -1
    => /\ probe.level \in 0..1000
       /\ (probe.level = 0) <=> IsSilence(probe.time)
       /\ IsSquareWave(probe.time) => probe.level = 1000

\* C18 witness: the level of a full-scale square wave was computed.
C18_Witness ==
  /\ probe.time = <<0, 255, 0, 255>>
  /\ probe.level = 1000

\* C19: a sample, as the hook returns it and as the renderer holds it, has
\* frequency bins and time-domain bytes of one instant of the analyser and
\* the level of exactly those bytes, whatever later ticks wrote.
Consistent(d) ==
  d.some
    => /\ d.level = Level(d.time)
       /\ \E s \in Signals :
            /\ d.time = TimeOf(s, Len(d.time))
            /\ d.freq = FreqOf(s, Len(d.time))

C19_SampleConsistent ==
  /\ Consistent(View(audio, audio.data))
  /\ Consistent(View(audio, audio.vizData))

\* C19 witness: the renderer has drawn a sample it still holds while a
\* later tick has published another one.
C19_Witness ==
  /\ audio.vizData.some
  /\ audio.data.some
  /\ audio.data # audio.vizData
  /\ audio.ran

\* C20: once the renderer is unmounted no render callback is pending and
\* none runs.
C20_NoRenderAfterUnmount ==
  /\ ~audio.mounted => RenderFrames = {}
  /\ audio.ran => audio.mounted

\* C20 witness: the renderer had drawn and rescheduled itself, and was
\* unmounted.
C20_Witness ==
  /\ ~audio.mounted
  /\ ~audio.crashed
  /\ audio.drawn # -1
  /\ audio.vizRaf # 0

\* C21: while the visualizer is mounted a render keeps executing, whether
\* no sample arrives or every frame brings a new sample that cancels the
\* pending render callback and requests a new one.
C21_RenderNeverStarved ==
  audio.mounted ~> (audio.ran \/ ~audio.mounted)

\* C22: the agent state is always one of idle, listening, thinking,
\* speaking, whatever data messages arrive.
C22_AgentStateInEnumeration ==
  audio.agentState \in AgentStates

\* C23: an unmount while the session is Connecting, Connected or
\* Reconnecting requests the transport disconnect; and after an unmount
\* during Reconnecting every step that clears the guard flag finds the
\* disconnect already requested.
C23_TeardownRequestsDisconnect ==
  [][\A i \in Inst :
       /\ (Unmounts(i) /\ sess[i] \in Live) => sess'[i] = "disconnecting"
       /\ (~comp[i].mounted /\ comp[i].unmountPhase = "reconnecting"
             /\ globalConnectionActive /\ ~globalConnectionActive')
            => sess[i] \notin Live]_vars

\* The step starts a token fetch of instance i.
StartsFetch(i) == comp'[i].fetches = comp[i].fetches + 1

\* The step runs the 2 s retry timer of instance i.
RetryTimerRuns(i) == comp'[i].retryTimers < comp[i].retryTimers /\ ~IsReload

\* C24: a disconnect that the client did not ask for schedules the retry
\* timer, and the timer starts a token fetch when it fires; a disconnect
\* the client asked for schedules nothing; and out of Failed a token fetch
\* starts only by the retry button or by the timer.
C24_RetryPolicy ==
  [][\A i \in Inst :
       /\ (/\ sess[i] \in Live /\ sess'[i] \in {"disconnected", "none"}
           /\ comp[i].view = "room" /\ ~IsReload)
            => comp'[i].retryTimers = comp[i].retryTimers + 1
       /\ RetryTimerRuns(i) => (StartsFetch(i) /\ comp'[i].isConnecting)
       /\ (/\ sess[i] = "disconnecting" /\ sess'[i] \in {"disconnected", "none"}
           /\ ~IsReload)
            => comp'[i].retryTimers = comp[i].retryTimers
       /\ (comp[i].mounted /\ Phase(i) = "Failed" /\ StartsFetch(i))
            => (comp[i].view = "error" \/ RetryTimerRuns(i))]_vars

\* The transport closed A's session while its LiveKitRoom was listening, and
\* the retry timer is pending.
C24_Witness ==
  /\ comp["A"].mounted
  /\ comp["A"].view = "room"
  /\ sess["A"] = "disconnected"
  /\ comp["A"].retryTimers = 1

\* C25: for every angular step 0..Steps and every non-empty buffer the
\* sample index computed for the step is an index of the buffer.
C25_SampleIndexInRange ==
  probe.index # -1 => probe.index \in 0..(Len(probe.time) - 1)

\* C26: an instance does not stay in the waiting view forever while no
\* session is active: again and again it is out of the waiting view or
\* some session is live.
C26_WaitingViewEnds ==
  \A i \in Inst :
    []<>(comp[i].view # "waiting" \/ \E j \in Inst : sess[j] \in Live)

=============================================================================
